---- MODULE Spec2Model ----
(***************************************************************************)
(* Model of the relay service of Back-End/app.py: the two HTTP handlers    *)
(* submit_code (POST /api/submit) and get_status (GET /api/status/<token>) *)
(* and the helper decode_base64_output.                                    *)
(*                                                                         *)
(* The service keeps no state between requests.  A state of the model is   *)
(* the last request handled, what the remote engine did with the outbound  *)
(* call of that request, the outbound calls the handler made, and the      *)
(* response it gave.  Each handler is one action, taken when no request is *)
(* being handled; Finish sends the response and forgets the request.       *)
(*                                                                         *)
(* Text is a sequence of Unicode code points; bytes are numbers 0..255.    *)
(* base64 and UTF-8 are computed, not assumed.                             *)
(***************************************************************************)
EXTENDS Integers, Sequences, FiniteSets, TLC

VARIABLES op, request, data, remote, outbound, response

vars == <<op, request, data, remote, outbound, response>>

(***************************************************************************)
(* Bounds of the model.                                                    *)
(***************************************************************************)
\* longest client text (code, stdin), in code points
MaxTextLen == 2
\* remote status ids range over 1..MaxStatusId
MaxStatusId == 3

(***************************************************************************)
(* Program constants.                                                      *)
(***************************************************************************)
JUDGE0_URL == "https://ce.judge0.com"

LANGUAGE_MAP ==
    ("Python 3" :> 71) @@ ("Node.js (JavaScript)" :> 63) @@ ("C++" :> 54) @@
    ("C" :> 50) @@ ("Java" :> 62) @@ ("C#" :> 51) @@ ("Go" :> 60) @@
    ("Rust" :> 73) @@ ("TypeScript" :> 74) @@ ("Plain Text" :> 43)

CPU_TIME_LIMIT == 5
MEMORY_LIMIT == 256000
\* language name used by submit_code when the field is absent
DEFAULT_LANGUAGE == "python"

(***************************************************************************)
(* JSON values.  Two uniform shapes, so that any two values compare:       *)
(*   JV: a value whose text matters by character (code, stdin, the remote  *)
(*       output fields, time, memory): t is the JSON type, s the code      *)
(*       points of a string, n the value of a number;                      *)
(*   NV: a value whose text is an opaque name (language, token, status     *)
(*       description): t is the JSON type, name the string.                *)
(* t = "absent" is a key that is not in the object.                        *)
(***************************************************************************)
Absent == [t |-> "absent", s |-> <<>>, n |-> 0]
Null == [t |-> "null", s |-> <<>>, n |-> 0]
Str(s) == [t |-> "str", s |-> s, n |-> 0]
Num(n) == [t |-> "num", s |-> <<>>, n |-> n]

NAbsent == [t |-> "absent", name |-> ""]
NNull == [t |-> "null", name |-> ""]
NStr(x) == [t |-> "str", name |-> x]
NList == [t |-> "list", name |-> ""]
\* the JSON object {"description": x}
NDescObj(x) == [t |-> "obj", name |-> x]

\* dict.get(key): an absent key reads as None
Get(v) == IF v.t = "absent" THEN Null ELSE v
\* dict.get(key, default) for text values
GetOr(v, default) == IF v.t = "absent" THEN default ELSE v
NGet(v) == IF v.t = "absent" THEN NNull ELSE v
NGetOr(v, default) == IF v.t = "absent" THEN default ELSE v

(***************************************************************************)
(* str.encode('utf-8') for code points below 0x800, and                    *)
(* bytes.decode('utf-8', errors='ignore').                                 *)
(***************************************************************************)
RECURSIVE utf8_encode(_)
utf8_encode(text) ==
    IF text = <<>> THEN <<>>
    ELSE LET c == Head(text) IN
         (IF c < 128 THEN <<c>>
          ELSE <<192 + (c \div 64), 128 + (c % 64)>>)
         \o utf8_encode(Tail(text))

IsCont(b) == b >= 128 /\ b <= 191

\* length of the well-formed UTF-8 sequence that starts bytes, 0 when none does
Utf8SeqLen(bytes) ==
    LET b0 == bytes[1]
        n == Len(bytes)
        b1 == IF n >= 2 THEN bytes[2] ELSE 0
        b2 == IF n >= 3 THEN bytes[3] ELSE 0
        b3 == IF n >= 4 THEN bytes[4] ELSE 0
    IN  CASE b0 < 128 -> 1
          [] b0 >= 194 /\ b0 <= 223 -> IF n >= 2 /\ IsCont(b1) THEN 2 ELSE 0
          [] b0 >= 224 /\ b0 <= 239 ->
                IF /\ n >= 3
                   /\ IsCont(b1)
                   /\ IsCont(b2)
                   /\ (b0 = 224 => b1 >= 160)
                   /\ (b0 = 237 => b1 <= 159)
                THEN 3 ELSE 0
          [] b0 >= 240 /\ b0 <= 244 ->
                IF /\ n >= 4
                   /\ IsCont(b1)
                   /\ IsCont(b2)
                   /\ IsCont(b3)
                   /\ (b0 = 240 => b1 >= 144)
                   /\ (b0 = 244 => b1 <= 143)
                THEN 4 ELSE 0
          [] OTHER -> 0

Utf8CodePoint(bytes, k) ==
    CASE k = 1 -> bytes[1]
      [] k = 2 -> (bytes[1] - 192) * 64 + (bytes[2] - 128)
      [] k = 3 -> (bytes[1] - 224) * 4096 + (bytes[2] - 128) * 64 + (bytes[3] - 128)
      [] OTHER -> (bytes[1] - 240) * 262144 + (bytes[2] - 128) * 4096
                  + (bytes[3] - 128) * 64 + (bytes[4] - 128)

RECURSIVE utf8_decode_ignore(_)
utf8_decode_ignore(bytes) ==
    IF bytes = <<>> THEN <<>>
    ELSE LET k == Utf8SeqLen(bytes) IN
         IF k = 0 THEN utf8_decode_ignore(Tail(bytes))
         ELSE <<Utf8CodePoint(bytes, k)>>
              \o utf8_decode_ignore(SubSeq(bytes, k + 1, Len(bytes)))

(***************************************************************************)
(* base64.  A base64 text is a sequence of ASCII code points.              *)
(***************************************************************************)
PadChar == 61

\* the character of a 6-bit value: A-Z a-z 0-9 + /
B64Char(v) ==
    CASE v < 26 -> 65 + v
      [] v < 52 -> 97 + (v - 26)
      [] v < 62 -> 48 + (v - 52)
      [] v = 62 -> 43
      [] OTHER -> 47

\* the 6-bit value of a character, 64 for a character outside the alphabet
B64Value(c) ==
    CASE c >= 65 /\ c <= 90 -> c - 65
      [] c >= 97 /\ c <= 122 -> c - 97 + 26
      [] c >= 48 /\ c <= 57 -> c - 48 + 52
      [] c = 43 -> 62
      [] c = 47 -> 63
      [] OTHER -> 64

RECURSIVE b64encode(_)
b64encode(bytes) ==
    LET n == Len(bytes) IN
    IF n = 0 THEN <<>>
    ELSE IF n = 1 THEN
        <<B64Char(bytes[1] \div 4), B64Char((bytes[1] % 4) * 16), PadChar, PadChar>>
    ELSE IF n = 2 THEN
        <<B64Char(bytes[1] \div 4),
          B64Char((bytes[1] % 4) * 16 + (bytes[2] \div 16)),
          B64Char((bytes[2] % 16) * 4), PadChar>>
    ELSE
        <<B64Char(bytes[1] \div 4),
          B64Char((bytes[1] % 4) * 16 + (bytes[2] \div 16)),
          B64Char((bytes[2] % 16) * 4 + (bytes[3] \div 64)),
          B64Char(bytes[3] % 64)>>
        \o b64encode(SubSeq(bytes, 4, n))

(***************************************************************************)
(* binascii.a2b_base64 in its default, non-strict mode: characters outside *)
(* the alphabet are skipped, a pad sequence that completes a quad ends the *)
(* input, and data left in an incomplete quad is an error.                 *)
(* st = [quad_pos, leftchar, pads, out, done].                             *)
(***************************************************************************)
A2bStep(st, c) ==
    IF st.done THEN st
    ELSE IF c = PadChar THEN
        IF st.quad_pos >= 2 /\ st.quad_pos + st.pads + 1 >= 4
        THEN [st EXCEPT !.done = TRUE]
        ELSE IF st.quad_pos >= 2 THEN [st EXCEPT !.pads = st.pads + 1] ELSE st
    ELSE LET v == B64Value(c) IN
        IF v >= 64 THEN st
        ELSE CASE st.quad_pos = 0 ->
                    [st EXCEPT !.quad_pos = 1, !.leftchar = v, !.pads = 0]
               [] st.quad_pos = 1 ->
                    [st EXCEPT !.quad_pos = 2, !.pads = 0,
                               !.out = Append(st.out, st.leftchar * 4 + (v \div 16)),
                               !.leftchar = v % 16]
               [] st.quad_pos = 2 ->
                    [st EXCEPT !.quad_pos = 3, !.pads = 0,
                               !.out = Append(st.out, st.leftchar * 16 + (v \div 4)),
                               !.leftchar = v % 4]
               [] OTHER ->
                    [st EXCEPT !.quad_pos = 0, !.pads = 0,
                               !.out = Append(st.out, st.leftchar * 64 + v),
                               !.leftchar = 0]

RECURSIVE A2bRun(_, _)
A2bRun(st, text) ==
    IF text = <<>> THEN st ELSE A2bRun(A2bStep(st, Head(text)), Tail(text))

\* the result of a call: exc = "none" and a value, or the exception raised
Ok(v) == [exc |-> "none", val |-> v]
Raise(e) == [exc |-> e, val |-> <<>>]

a2b_base64(text) ==
    LET st == A2bRun([quad_pos |-> 0, leftchar |-> 0, pads |-> 0,
                      out |-> <<>>, done |-> FALSE], text)
    IN  IF st.done \/ st.quad_pos = 0 THEN Ok(st.out) ELSE Raise("ValueError")

\* base64.b64decode(s): a str must be ASCII, any other non-bytes value is a TypeError
b64decode(v) ==
    IF v.t = "str"
    THEN IF \E i \in 1..Len(v.s) : v.s[i] > 127
         THEN Raise("ValueError")
         ELSE a2b_base64(v.s)
    ELSE Raise("TypeError")

\* str(x) of a JSON value
PyStr(v) ==
    CASE v.t = "str" -> v.s
      [] v.t = "num" -> <<48 + v.n>>
      [] OTHER -> <<78, 111, 110, 101>>

(***************************************************************************)
(* decode_base64_output                                                    *)
(***************************************************************************)
\* a faulty variant: the except clause misses ValueError
DecodeCaughtTypeOnly == {"TypeError"}

\* the exceptions the helper's except clause catches
DecodeCaught == {"TypeError", "ValueError"}

\* a faulty variant: an undecodable value becomes the empty string
DecodeOrEmpty(v) ==
    IF v.t = "null" THEN Ok(<<>>)
    ELSE LET r == b64decode(v) IN
         IF r.exc = "none" THEN Ok(utf8_decode_ignore(r.val))
         ELSE IF r.exc \in DecodeCaught THEN Ok(<<>>)
         ELSE Raise(r.exc)

decode_base64_output(v) ==
    IF v.t = "null" THEN Ok(<<>>)
    ELSE LET r == b64decode(v) IN
         IF r.exc = "none" THEN Ok(utf8_decode_ignore(r.val))
         ELSE IF r.exc \in DecodeCaught THEN Ok(PyStr(v))
         ELSE Raise(r.exc)

(***************************************************************************)
(* HTTP responses of the relay.  A body is a JSON object; keys is the set  *)
(* of keys it has, and a field outside keys holds its filler value.        *)
(***************************************************************************)
EmptyBody ==
    [keys |-> {}, error |-> "", details |-> "", token |-> NAbsent,
     status |-> NAbsent, stdout |-> Absent, stderr |-> Absent,
     compile_output |-> Absent, time |-> Absent, memory |-> Absent]

ErrorBody(msg) == [EmptyBody EXCEPT !.keys = {"error"}, !.error = msg]

ErrorDetailsBody(msg, text) ==
    [EmptyBody EXCEPT !.keys = {"error", "details"}, !.error = msg, !.details = text]

TokenBody(tok) == [EmptyBody EXCEPT !.keys = {"token"}, !.token = tok]

PendingBody == [EmptyBody EXCEPT !.keys = {"status"}, !.status = NDescObj("Pending")]

FinalBody(st, out, err, comp, tm, mem) ==
    [EmptyBody EXCEPT
        !.keys = {"status", "stdout", "stderr", "compile_output", "time", "memory"},
        !.status = st, !.stdout = out, !.stderr = err, !.compile_output = comp,
        !.time = tm, !.memory = mem]

Reply(code, body) == [status |-> code, body |-> body]

NoReply == Reply(0, EmptyBody)

(***************************************************************************)
(* Outbound calls to the remote engine.                                    *)
(***************************************************************************)
NoPayload ==
    [source_code |-> <<>>, language_id |-> 0, stdin |-> <<>>,
     cpu_time_limit |-> 0, memory_limit |-> 0]

\* a faulty variant: the source and the input are swapped
SubmitPayloadSwapped(encoded_code, language_id, encoded_stdin) ==
    [source_code |-> encoded_stdin, language_id |-> language_id,
     stdin |-> encoded_code, cpu_time_limit |-> CPU_TIME_LIMIT,
     memory_limit |-> MEMORY_LIMIT]

SubmitPayload(encoded_code, language_id, encoded_stdin) ==
    [source_code |-> encoded_code, language_id |-> language_id,
     stdin |-> encoded_stdin, cpu_time_limit |-> CPU_TIME_LIMIT,
     memory_limit |-> MEMORY_LIMIT]

\* requests.post(f"{JUDGE0_URL}/submissions?base64_encoded=true&wait=false", json=payload)
SubmitCall(payload) ==
    [method |-> "POST", url |-> JUDGE0_URL \o "/submissions",
     base64_encoded |-> "true", wait |-> "false", fields |-> "",
     payload |-> payload]

\* requests.get(f"{JUDGE0_URL}/submissions/{token}?base64_encoded=true&fields=...")
StatusCall(token) ==
    [method |-> "GET", url |-> JUDGE0_URL \o "/submissions/" \o token,
     base64_encoded |-> "true", wait |-> "",
     fields |-> "stdout,stderr,compile_output,time,memory,status",
     payload |-> NoPayload]

(***************************************************************************)
(* The remote engine's answer to one outbound call.                        *)
(*   kind "transport": no HTTP response (connection refused, timeout, DNS) *)
(*   kind "http": a response with status code, raw text, and, when the     *)
(*        body is a JSON object, its token (submission) or result (query)  *)
(*   kind "http_bad_json": a response whose body is not a JSON object      *)
(***************************************************************************)
NoStatus == [t |-> "absent", id |-> Absent, description |-> NAbsent]
NullStatus == [t |-> "null", id |-> Absent, description |-> NAbsent]
StatusObj(id, description) == [t |-> "obj", id |-> id, description |-> description]

NoResult ==
    [status |-> NoStatus, stdout |-> Absent, stderr |-> Absent,
     compile_output |-> Absent, time |-> Absent, memory |-> Absent]

NoRemote == [kind |-> "none", code |-> 0, text |-> "", token |-> NAbsent, result |-> NoResult]

Transport == [NoRemote EXCEPT !.kind = "transport"]

HttpToken(code, tok) == [NoRemote EXCEPT !.kind = "http", !.code = code, !.token = tok]

HttpResult(code, res) == [NoRemote EXCEPT !.kind = "http", !.code = code, !.result = res]

HttpError(code, text) == [NoRemote EXCEPT !.kind = "http", !.code = code, !.text = text]

HttpBadJson(code) == [NoRemote EXCEPT !.kind = "http_bad_json", !.code = code]

\* requests.post / requests.get followed by response.raise_for_status()
CallOutcome(rem) ==
    IF rem.kind = "transport" THEN "ConnectionError"
    ELSE IF rem.code >= 400 /\ rem.code < 600 THEN "HTTPError"
    ELSE "none"

\* response.json() and the first access to it as a dict
JsonOutcome(rem) == IF rem.kind = "http_bad_json" THEN "JSONDecodeError" ELSE "none"

(***************************************************************************)
(* What a handler has reached: a response, an exception for its except     *)
(* clauses, or (submit_code only) the payload of the outbound call.        *)
(***************************************************************************)
Return(code, body) == [kind |-> "reply", reply |-> Reply(code, body), exc |-> "none", payload |-> NoPayload]
Throw(e) == [kind |-> "raise", reply |-> NoReply, exc |-> e, payload |-> NoPayload]
Proceed(payload) == [kind |-> "call", reply |-> NoReply, exc |-> "none", payload |-> payload]

(***************************************************************************)
(* submit_code                                                             *)
(***************************************************************************)
NoFields == [code |-> Absent, language |-> NAbsent, stdin |-> Absent, cpu_time_limit |-> Absent]

IsEmptyObject(fields) ==
    /\ fields.code.t = "absent"
    /\ fields.language.t = "absent"
    /\ fields.stdin.t = "absent"
    /\ fields.cpu_time_limit.t = "absent"

\* request.get_json(): "None", "falsy" (an empty object or another falsy JSON
\* value), "dict" (a non-empty object), "other" (a non-empty non-object), or the
\* werkzeug exception raised.  A body that is not declared JSON reads as None in
\* Flask before 2.1 and raises UnsupportedMediaType from 2.1 on (mimetypeRaises).
get_json(req, mimetypeRaises) ==
    CASE req.body = "malformed" -> Raise("BadRequest")
      [] req.body \in {"absent", "wrong_content_type"} ->
            IF mimetypeRaises THEN Raise("UnsupportedMediaType") ELSE Ok("None")
      [] req.body = "json_null" -> Ok("None")
      [] req.body = "array" -> Ok("other")
      [] OTHER -> IF IsEmptyObject(req.fields) THEN Ok("falsy") ELSE Ok("dict")

\* a faulty variant: an unknown name falls back to Python 3 instead of None
LanguageIdDefaulting(language_name) ==
    IF language_name.t = "str" /\ language_name.name \in DOMAIN LANGUAGE_MAP
    THEN LANGUAGE_MAP[language_name.name]
    ELSE LANGUAGE_MAP["Python 3"]

\* LANGUAGE_MAP.get(language_name): 0 stands for None
LanguageId(language_name) ==
    IF language_name.t = "str" /\ language_name.name \in DOMAIN LANGUAGE_MAP
    THEN LANGUAGE_MAP[language_name.name]
    ELSE 0

\* f"{language_name}"
LanguageText(language_name) ==
    IF language_name.t = "str" THEN language_name.name ELSE "None"

UnsupportedLanguage(language_name) ==
    Return(400, ErrorBody("Unsupported language: " \o LanguageText(language_name)))

\* lines 48-71: up to the outbound call
SubmitPrepare(req, d) ==
    IF d.exc # "none" THEN Throw(d.exc)
    ELSE IF d.val \in {"None", "falsy"} THEN Return(400, ErrorBody("Invalid JSON payload"))
    ELSE IF d.val # "dict" THEN Throw("AttributeError")
    ELSE LET code == GetOr(req.code, Str(<<>>))
             language_name == NGetOr(req.language, NStr(DEFAULT_LANGUAGE))
             stdin == GetOr(req.stdin, Str(<<>>))
         IN  IF language_name.t = "list" THEN Throw("TypeError")
             ELSE IF LanguageId(language_name) = 0 THEN UnsupportedLanguage(language_name)
             ELSE IF code.t # "str" \/ stdin.t # "str" THEN Throw("AttributeError")
             ELSE Proceed(SubmitPayload(b64encode(utf8_encode(code.s)),
                                        LanguageId(language_name),
                                        b64encode(utf8_encode(stdin.s))))

\* the outbound calls submit_code makes once the payload is built
SubmitCalls(payload) == <<SubmitCall(payload)>>

\* lines 75-80: the outbound call's answer
SubmitFinish(rem) ==
    IF CallOutcome(rem) # "none" THEN Throw(CallOutcome(rem))
    ELSE IF JsonOutcome(rem) # "none" THEN Throw(JsonOutcome(rem))
    ELSE Return(202, TokenBody(NGet(rem.token)))

\* lines 82-88: the except clauses
SubmitExcept(exc, rem) ==
    IF exc = "HTTPError"
    THEN Reply(502, ErrorDetailsBody("Failed to submit code to compiler service.", rem.text))
    ELSE Reply(500, ErrorBody("An unexpected server error occurred."))

(***************************************************************************)
(* get_status                                                              *)
(***************************************************************************)
\* a faulty variant: only "in queue" is taken as unfinished
PendingOnlyQueued == {1}

\* the remote status ids that mean the submission has not finished
PENDING_IDS == {1, 2}

\* result.get('status', {}).get('id'), or the exception raised
StatusId(res) ==
    CASE res.status.t = "absent" -> Ok(Null)
      [] res.status.t = "null" -> Raise("AttributeError")
      [] OTHER -> Ok(Get(res.status.id))

\* result.get('status', {}).get('description', 'Unknown Error')
StatusDescription(res) ==
    IF res.status.t = "absent" THEN NStr("Unknown Error")
    ELSE NGetOr(res.status.description, NStr("Unknown Error"))

\* lines 111-120
FinalResult(res) ==
    LET out == decode_base64_output(Get(res.stdout))
        err == decode_base64_output(Get(res.stderr))
        comp == decode_base64_output(Get(res.compile_output))
    IN  IF out.exc # "none" THEN Throw(out.exc)
        ELSE IF err.exc # "none" THEN Throw(err.exc)
        ELSE IF comp.exc # "none" THEN Throw(comp.exc)
        ELSE Return(200, FinalBody(StatusDescription(res), Str(out.val), Str(err.val),
                                   Str(comp.val), Get(res.time), Get(res.memory)))

\* a faulty variant: the query is sent a second time
StatusCallsRetried(token) == <<StatusCall(token), StatusCall(token)>>

\* the outbound calls get_status makes for a non-empty token
StatusCalls(token) == <<StatusCall(token)>>

\* lines 102-120: the outbound call's answer
StatusFinish(rem) ==
    IF CallOutcome(rem) # "none" THEN Throw(CallOutcome(rem))
    ELSE IF JsonOutcome(rem) # "none" THEN Throw(JsonOutcome(rem))
    ELSE LET status_id == StatusId(rem.result) IN
         IF status_id.exc # "none" THEN Throw(status_id.exc)
         ELSE IF status_id.val.t = "num" /\ status_id.val.n \in PENDING_IDS
              THEN Return(200, PendingBody)
              ELSE FinalResult(rem.result)

\* lines 122-130: the except clauses
StatusExcept(exc, rem) ==
    IF exc = "HTTPError"
    THEN IF rem.code = 404
         THEN Reply(404, ErrorBody("Invalid or expired token."))
         ELSE Reply(502, ErrorDetailsBody("Failed to retrieve results from compiler service.",
                                          rem.text))
    ELSE Reply(500, ErrorBody("An unexpected server error occurred during polling."))

(***************************************************************************)
(* Inputs.                                                                 *)
(***************************************************************************)
\* 'A' and U+00E9, one and two bytes of UTF-8
Chars == {65, 233}

RECURSIVE TextsUpTo(_)
TextsUpTo(n) ==
    IF n = 0 THEN {<<>>}
    ELSE LET shorter == TextsUpTo(n - 1) IN
         shorter \cup {Append(t, c) : t \in {x \in shorter : Len(x) = n - 1}, c \in Chars}

Texts == TextsUpTo(MaxTextLen)

CodeValues == {Absent, Null, Num(5)} \cup {Str(t) : t \in Texts}

StdinValues == {Absent, Null} \cup {Str(t) : t \in Texts}

LanguageValues ==
    {NAbsent, NNull, NList, NStr("COBOL")}
    \cup {NStr(x) : x \in DOMAIN LANGUAGE_MAP}

\* a resource limit the client tries to set
LimitValues == {Absent, Num(9)}

BodyKinds == {"absent", "malformed", "wrong_content_type", "json_null", "array", "object"}

SubmitRequests ==
    {[body |-> b, fields |-> NoFields] : b \in BodyKinds \ {"object"}}
    \cup {[body |-> "object",
           fields |-> [code |-> c, language |-> l, stdin |-> i, cpu_time_limit |-> x]] :
            c \in CodeValues, l \in LanguageValues, i \in StdinValues, x \in LimitValues}

Tokens == {"", "d85cd024"}

ErrorTexts == {"", "{\"error\":\"queue is full\"}"}

ErrorCodes == {404, 500, 503}

SubmitRemotes ==
    {Transport, HttpBadJson(201)}
    \cup {HttpToken(201, tok) : tok \in {NAbsent, NStr("d85cd024"), NStr("f3a1")}}
    \cup {HttpError(c, x) : c \in ErrorCodes, x \in ErrorTexts}

\* texts the remote engine may send in an output field: "w6k=" (U+00E9),
\* "QcP/" (A, a truncated UTF-8 sequence, the byte FF), "Q!Q=\n=" (A, with
\* characters outside the alphabet), "QQ" (an incomplete quad), and a text
\* with a non-ASCII character
RemoteTexts ==
    {<<119, 54, 107, 61>>, <<81, 99, 80, 47>>, <<81, 33, 81, 61, 10, 61>>,
     <<81, 81>>, <<233>>}

FieldValues == {Absent, Null, Num(5)} \cup {Str(t) : t \in RemoteTexts}

IdValues == {Absent, Null} \cup {Num(i) : i \in 1..MaxStatusId}

DescriptionValues == {NAbsent, NNull, NStr("Accepted")}

StatusValues ==
    {NoStatus, NullStatus}
    \cup {StatusObj(i, d) : i \in IdValues, d \in DescriptionValues}

\* time is sent as text ("0.01"), memory as a number
TimeValues == {Absent, Str(<<48, 46, 48, 49>>)}

MemoryValues == {Null, Num(7)}

Results ==
    {[status |-> s, stdout |-> o, stderr |-> e, compile_output |-> c,
      time |-> t, memory |-> m] :
        s \in StatusValues, o \in FieldValues, e \in FieldValues,
        c \in FieldValues, t \in TimeValues, m \in MemoryValues}

StatusRemotes ==
    {Transport, HttpBadJson(200)}
    \cup {HttpResult(200, r) : r \in Results}
    \cup {HttpError(c, x) : c \in ErrorCodes, x \in ErrorTexts}

(***************************************************************************)
(* The state machine.                                                      *)
(***************************************************************************)
NoRequest == [body |-> "none", fields |-> NoFields, token |-> ""]

Init ==
    /\ op = "none"
    /\ request = NoRequest
    /\ data = Ok("None")
    /\ remote = NoRemote
    /\ outbound = <<>>
    /\ response = NoReply

\* POST /api/submit
submit_code ==
    /\ op = "none"
    /\ \E req \in SubmitRequests, mimetypeRaises \in BOOLEAN :
        LET d == get_json(req, mimetypeRaises)
            pre == SubmitPrepare(req.fields, d)
        IN  /\ op' = "submit"
            /\ request' = [body |-> req.body, fields |-> req.fields, token |-> ""]
            /\ data' = d
            /\ IF pre.kind = "call"
               THEN \E rem \in SubmitRemotes :
                        LET fin == SubmitFinish(rem) IN
                        /\ remote' = rem
                        /\ outbound' = SubmitCalls(pre.payload)
                        /\ response' = IF fin.kind = "raise"
                                       THEN SubmitExcept(fin.exc, rem)
                                       ELSE fin.reply
               ELSE /\ remote' = NoRemote
                    /\ outbound' = <<>>
                    /\ response' = IF pre.kind = "raise"
                                   THEN SubmitExcept(pre.exc, NoRemote)
                                   ELSE pre.reply

\* GET /api/status/<token>
get_status ==
    /\ op = "none"
    /\ \E token \in Tokens :
        /\ op' = "status"
        /\ request' = [body |-> "none", fields |-> NoFields, token |-> token]
        /\ data' = Ok("None")
        /\ IF token = ""
           THEN /\ remote' = NoRemote
                /\ outbound' = <<>>
                /\ response' = Reply(400, ErrorBody("Token is required"))
           ELSE \E rem \in StatusRemotes :
                    LET fin == StatusFinish(rem) IN
                    /\ remote' = rem
                    /\ outbound' = StatusCalls(token)
                    /\ response' = IF fin.kind = "raise"
                                   THEN StatusExcept(fin.exc, rem)
                                   ELSE fin.reply

\* the response is sent; nothing of the request is kept
Finish ==
    /\ op # "none"
    /\ op' = "none"
    /\ request' = NoRequest
    /\ data' = Ok("None")
    /\ remote' = NoRemote
    /\ outbound' = <<>>
    /\ response' = NoReply

Next == submit_code \/ get_status \/ Finish

Spec == Init /\ [][Next]_vars

(***************************************************************************)
(* Properties.                                                             *)
(***************************************************************************)
OutputFields == {"stdout", "stderr", "compile_output"}

Submitted == op = "submit"
Polled == op = "status"

\* the outbound call was made and the remote engine answered it without an
\* error status and with a JSON object
RemoteSucceeded == remote.kind = "http" /\ remote.code < 400

RemoteErrorStatus == remote.kind \in {"http", "http_bad_json"} /\ remote.code >= 400

RemoteTransportFailure == remote.kind = "transport"

\* the request body parsed to a non-empty JSON object
ParsedObject == Submitted /\ data = Ok("dict")

\* the fields have the types of the Submission Request: text, or absent
TextOrAbsent(v) == v.t \in {"str", "absent"}

SupportedLanguage(l) == l.t = "str" /\ l.name \in DOMAIN LANGUAGE_MAP

\* C1: a supported language name is forwarded as the table's identifier (and
\* with text code and stdin the payload is forwarded); a name that is not in
\* the table, the default "python" of an absent field included, is answered
\* 400 "Unsupported language: <name>".
C1_LanguageLookup ==
    ParsedObject =>
        LET f == request.fields
            l == f.language
        IN  /\ SupportedLanguage(l) =>
                /\ \A i \in 1..Len(outbound) :
                        outbound[i].payload.language_id = LANGUAGE_MAP[l.name]
                /\ TextOrAbsent(f.code) /\ TextOrAbsent(f.stdin) => Len(outbound) = 1
            /\ l.t = "str" /\ ~SupportedLanguage(l) =>
                /\ response = Reply(400, ErrorBody("Unsupported language: " \o l.name))
                /\ outbound = <<>>
            /\ l.t = "absent" =>
                /\ response = Reply(400, ErrorBody("Unsupported language: python"))
                /\ outbound = <<>>

C1_Witness ==
    /\ ParsedObject
    /\ request.fields.language = NStr("Rust")
    /\ Len(outbound) = 1
    /\ outbound[1].payload.language_id = 73

\* C2: when the submission call succeeds and issues token t, the payload
\* carried the base64 of the code and of the stdin (of the empty text when
\* absent), which decode back to them, the fixed limits 5 and 256000 whatever
\* limit the client sent, in no-wait mode, and the answer is 202 {token: t}.
C2_SubmitPayloadAndToken ==
    Submitted /\ RemoteSucceeded /\ remote.token.t = "str" =>
        LET f == request.fields
            code == IF f.code.t = "absent" THEN <<>> ELSE f.code.s
            stdin == IF f.stdin.t = "absent" THEN <<>> ELSE f.stdin.s
        IN  /\ Len(outbound) = 1
            /\ outbound[1].method = "POST"
            /\ outbound[1].base64_encoded = "true"
            /\ outbound[1].wait = "false"
            /\ outbound[1].payload.source_code = b64encode(utf8_encode(code))
            /\ outbound[1].payload.stdin = b64encode(utf8_encode(stdin))
            /\ a2b_base64(outbound[1].payload.source_code) = Ok(utf8_encode(code))
            /\ utf8_decode_ignore(utf8_encode(code)) = code
            /\ a2b_base64(outbound[1].payload.stdin) = Ok(utf8_encode(stdin))
            /\ outbound[1].payload.cpu_time_limit = 5
            /\ outbound[1].payload.memory_limit = 256000
            /\ response.status = 202
            /\ response.body.keys = {"token"}
            /\ response.body.token = remote.token

C2_Witness ==
    /\ Submitted
    /\ RemoteSucceeded
    /\ remote.token = NStr("d85cd024")
    /\ request.fields.code = Str(<<65, 233>>)
    /\ request.fields.stdin = Absent
    /\ request.fields.cpu_time_limit = Num(9)
    /\ outbound[1].payload.source_code = <<81, 99, 79, 112>>
    /\ response = Reply(202, TokenBody(NStr("d85cd024")))

\* C3: a request whose body is absent, is malformed JSON, has the wrong
\* content type, or is an empty JSON object is answered 400.
C3_InvalidPayloadIs400 ==
    Submitted /\ ( \/ request.body \in {"absent", "malformed", "wrong_content_type"}
                   \/ (request.body = "object" /\ IsEmptyObject(request.fields)) )
        => response.status = 400

\* C4: when the submission call fails at transport level or with an error
\* status, the answer is 502, with the remote's text as details for an error
\* status; 500 is answered for neither.
C4_SubmitRemoteFailureIs502 ==
    Submitted /\ Len(outbound) = 1 =>
        /\ RemoteTransportFailure \/ RemoteErrorStatus => response.status = 502
        /\ RemoteErrorStatus => response.body.details = remote.text
        /\ response.status = 500 => ~(RemoteTransportFailure \/ RemoteErrorStatus)

\* C5: when the status query fails, a remote 404 is answered 404 "Invalid or
\* expired token.", every other error status or transport failure is
\* answered 502, and 500 is answered for neither.
C5_PollRemoteFailure ==
    Polled /\ Len(outbound) = 1 =>
        /\ RemoteErrorStatus /\ remote.code = 404 =>
                response = Reply(404, ErrorBody("Invalid or expired token."))
        /\ (RemoteErrorStatus /\ remote.code # 404) \/ RemoteTransportFailure =>
                response.status = 502
        /\ response.status = 500 => ~(RemoteTransportFailure \/ RemoteErrorStatus)

\* the remote result says "in queue" (1) or "processing" (2)
RemoteInQueueOrProcessing ==
    /\ remote.result.status.t = "obj"
    /\ remote.result.status.id.t = "num"
    /\ remote.result.status.id.n \in {1, 2}

\* C6: a successful query with status id 1 or 2 is answered 200 with exactly
\* {status: {description: "Pending"}}, whatever else the remote sent; an
\* answer to any other status id is not the Pending marker.
C6_PendingMarker ==
    Polled /\ RemoteSucceeded =>
        IF RemoteInQueueOrProcessing
        THEN /\ response.status = 200
             /\ response.body.keys = {"status"}
             /\ response.body.status = NDescObj("Pending")
             /\ response.body = PendingBody
        ELSE /\ response.body.status # NDescObj("Pending")
             /\ response.body.keys # {"status"}

C6_Witness ==
    /\ Polled
    /\ RemoteSucceeded
    /\ remote.result.status = StatusObj(Num(2), NStr("Accepted"))
    /\ remote.result.stdout = Str(<<119, 54, 107, 61>>)
    /\ remote.result.memory = Num(7)
    /\ response = Reply(200, PendingBody)

\* a Submit request the relay must reject: the body is not a non-empty JSON
\* object whose code and stdin are text and whose language is a name or
\* absent (invalid payload), or its language is not in the table
RejectedSubmit ==
    \/ data # Ok("dict")
    \/ ~TextOrAbsent(request.fields.code)
    \/ ~TextOrAbsent(request.fields.stdin)
    \/ ~SupportedLanguage(request.fields.language)

\* C7: handling one request makes no outbound call when the request is
\* rejected (invalid payload, unsupported language, empty token), whatever
\* status the rejection is answered with, and exactly one call otherwise,
\* also when that call fails; an answer of 400 is given without any call.
C7_OutboundCalls ==
    /\ Len(outbound) <= 1
    /\ response.status = 400 => Len(outbound) = 0
    /\ Submitted => Len(outbound) = (IF RejectedSubmit THEN 0 ELSE 1)
    /\ Polled => Len(outbound) = (IF request.token = "" THEN 0 ELSE 1)
    /\ Len(outbound) = 1 /\ Submitted => outbound[1].method = "POST"
    /\ Len(outbound) = 1 /\ Polled =>
            /\ outbound[1].method = "GET"
            /\ outbound[1].url = "https://ce.judge0.com/submissions/" \o request.token

C7_Witness ==
    /\ Polled
    /\ RemoteErrorStatus
    /\ remote.code = 503
    /\ response.status = 502
    /\ Len(outbound) = 1

\* C8: decode_base64_output returns a string for every value and raises
\* nothing: for malformed base64, for base64 of bytes that are not UTF-8,
\* for a value that is not text; for None it returns the empty string.
C8_DecodeTotal ==
    Polled /\ RemoteSucceeded =>
        \A f \in OutputFields :
            LET v == Get(remote.result[f])
                r == decode_base64_output(v)
            IN  /\ r.exc = "none"
                /\ \A i \in 1..Len(r.val) : r.val[i] \in Nat
                /\ v.t = "null" => r.val = <<>>

\* the three cases at once: an incomplete quad, bytes that are not UTF-8, a number
C8_Witness ==
    /\ Polled
    /\ RemoteSucceeded
    /\ remote.result.stdout = Str(<<81, 81>>)
    /\ remote.result.stderr = Str(<<81, 99, 80, 47>>)
    /\ remote.result.compile_output = Num(5)
    /\ response.status = 200
    /\ response.body.stdout = Str(<<81, 81>>)
    /\ response.body.stderr = Str(<<65>>)
    /\ response.body.compile_output = Str(<<53>>)

\* a terminal result: the six-field answer of get_status
TerminalResult == Polled /\ response.status = 200 /\ "stdout" \in response.body.keys

\* C9 as stated: in a terminal result each output field is the decoded text
\* of a decodable remote field and the empty string for an absent or an
\* undecodable one.
C9_UndecodableIsEmpty ==
    TerminalResult =>
        \A f \in OutputFields :
            LET v == Get(remote.result[f])
                d == b64decode(v)
            IN  response.body[f] =
                    IF v.t # "null" /\ d.exc = "none"
                    THEN Str(utf8_decode_ignore(d.val))
                    ELSE Str(<<>>)

\* C9 amended: in a terminal result each output field is the decoded text of
\* a decodable remote field (bytes that are not UTF-8 dropped), the empty
\* string for an absent or null one, and the remote value itself, as a
\* string, for an undecodable one.
C9_UndecodableIsRaw ==
    TerminalResult =>
        \A f \in OutputFields :
            LET v == Get(remote.result[f])
                d == b64decode(v)
            IN  response.body[f] =
                    IF v.t = "null" THEN Str(<<>>)
                    ELSE IF d.exc = "none" THEN Str(utf8_decode_ignore(d.val))
                    ELSE IF v.t = "str" THEN Str(v.s)
                    ELSE Str(<<48 + v.n>>)

C9_Witness ==
    /\ TerminalResult
    /\ remote.result.stdout = Str(<<233>>)
    /\ remote.result.stderr = Absent
    /\ remote.result.compile_output = Str(<<119, 54, 107, 61>>)
    /\ response.body.stdout = Str(<<233>>)
    /\ response.body.stderr = Str(<<>>)
    /\ response.body.compile_output = Str(<<233>>)

\* C10: a successful query whose status id is not 1 or 2, a status, id or
\* description that is absent or null included, is answered 200 with the six
\* fields, time and memory as the remote sent them (null when absent) and
\* status the remote description, "Unknown Error" when it is absent.
C10_TerminalResult ==
    Polled /\ RemoteSucceeded /\ ~RemoteInQueueOrProcessing =>
        LET res == remote.result IN
        /\ response.status = 200
        /\ response.body.keys =
                {"status", "stdout", "stderr", "compile_output", "time", "memory"}
        /\ response.body.time = (IF res.time.t = "absent" THEN Null ELSE res.time)
        /\ response.body.memory = (IF res.memory.t = "absent" THEN Null ELSE res.memory)
        /\ response.body.status =
                (IF res.status.t = "obj" /\ res.status.description.t # "absent"
                 THEN res.status.description
                 ELSE NStr("Unknown Error"))

====
